---------------------------- MODULE Spec2Model ----------------------------
(***************************************************************************)
(* A model of the SageMaker training notebooks of the repository:          *)
(*   builtin : the built-in XGBoost notebook (distributed training and     *)
(*             automatic model tuning)                src/unnamed/part_000 *)
(*   script  : the XGBoost script-mode notebook                            *)
(*             src/xgboost_script_mode_distributed/...ipynb                *)
(*   hf      : the Hugging Face checkpointing notebook                     *)
(*             src/huggingface_data_parallelism_checkpointing/...ipynb     *)
(* A notebook is a list of cells run one after the other; the managed      *)
(* platform (training jobs, checkpoint synchronisation, endpoints) is the  *)
(* environment of the notebook and is modelled by the actions named        *)
(* Platform..., as the notebooks' own text describes it.                   *)
(***************************************************************************)
EXTENDS Integers, Sequences, FiniteSets, TLC

VARIABLES
    nb,                  \* the notebook that is run
    pc,                  \* the cell the kernel is at ("aborted", "done")
    use_spot_instances,  \* the notebook's user-editable spot flag
    data,                \* the pandas frame `data`
    train,               \* the frame `train`
    validation,          \* the frame `validation`
    train_0,             \* the frame `train_0`
    train_1,             \* the frame `train_1`
    files,               \* local files written by the kernel: name -> row labels
    s3,                  \* object storage: the set of keys written
    role,                \* the IAM role the setup cell obtained
    estimators,          \* estimator objects constructed: name -> configuration
    jobs,                \* training jobs submitted: estimator name -> job record
    ckpts,               \* checkpoints in object storage: uri -> set of checkpoints
    tuning,              \* the tuner of the built-in notebook and its tuning job
    endpoints,           \* hosted endpoints: predictor name -> state
    log,                 \* every SDK call the kernel has made, with its outcome
    exc                  \* the exception that stopped the run, or "none"

vars == <<nb, pc, use_spot_instances, data, train, validation, train_0, train_1,
          files, s3, role, estimators, jobs, ckpts, tuning, endpoints, log, exc>>

frames == <<data, train, validation, train_0, train_1>>

remote == <<estimators, jobs, ckpts, tuning, endpoints>>

-----------------------------------------------------------------------------
(* Bounds of the model.                                                    *)

\* the largest number of rows of abalone.csv explored by the data preparation
MaxRows == 5

\* the number of rows of the data set when a whole notebook is run
FlowRows == 1

\* how often the platform reclaims the spot capacity of one training job
MaxInterrupts == 1

-----------------------------------------------------------------------------
(* Sequences and frames.                                                   *)

Range(s) == {s[i] : i \in DOMAIN s}

\* s[a:b] of Python, 0-based, b exclusive, for 0 <= a, b <= len(s)
Slice(s, a, b) == [i \in 1..(IF b > a THEN b - a ELSE 0) |-> s[a + i]]

\* every reordering of s
Shuffles(s) ==
    {p \in [DOMAIN s -> Range(s)] : \A i, j \in DOMAIN s : p[i] = p[j] => i = j}

Max(S) == CHOOSE x \in S : \A y \in S : y <= x

NoFrame == [columns |-> <<>>, index |-> <<>>]

Notebooks == {"builtin", "script", "hf"}

XgbNotebooks == {"builtin", "script"}

-----------------------------------------------------------------------------
(* IEEE-754 double arithmetic of the split points: int(.8*len(data)) and   *)
(* int(.5*len(train)).  A double fraction f < 1 is held as the three       *)
(* 18-bit limbs <<m0, m1, m2>> of m = f * 2^53, least significant first.   *)

Limb == 2^18

\* the double nearest to 0.8: 0x1999999999999A * 2^-53
train_frac == <<104858, 157286, 104857>>

\* the double 0.5: 2^52 * 2^-53
shard_frac == <<0, 0, 65536>>

\* the number of bits of the positive integer i
RECURSIVE BitLen(_)
BitLen(i) == IF i = 0 THEN 0 ELSE 1 + BitLen(i \div 2)

\* int(f * n): the exact product n*m, rounded to 53 significant bits (to
\* nearest, ties to even) as the multiplication of two doubles does, then
\* truncated toward zero as int() does.  n < 2^13.
FloatMulInt(f, n) ==
    LET r0 == n * f[1]
        p0 == r0 % Limb
        r1 == n * f[2] + (r0 \div Limb)
        p1 == r1 % Limb
        p2 == n * f[3] + (r1 \div Limb)
        whole == p2 \div 2^17          \* floor of the exact product
        top == p2 % 2^17               \* the fraction is <<p0, p1, top>>
        s == BitLen(whole)             \* bits dropped by the rounding
        carries == /\ whole > 0
                   /\ top = 2^17 - 1
                   /\ p1 = Limb - 1
                   /\ p0 >= Limb - 2^(s - 1)
    IN  IF carries THEN whole + 1 ELSE whole

\* a variant that cuts at the half: int(.5*len(data))
split_point_mut(n) == FloatMulInt(shard_frac, n)

\* int(.8*len(data))
split_point(n) == FloatMulInt(train_frac, n)

\* a variant that cuts the training rows at four fifths: int(.8*len(train))
shard_point_mut(n) == FloatMulInt(train_frac, n)

\* int(.5*len(train))
shard_point(n) == FloatMulInt(shard_frac, n)

-----------------------------------------------------------------------------
(* The data preparation cells of the two XGBoost notebooks.                *)

feature_names == <<"Sex", "Length", "Diameter", "Height", "Whole weight",
                   "Shucked weight", "Viscera weight", "Shell weight", "Rings">>

\* pd.read_csv(FILE_NAME, header=None, names=feature_names) of a file of n rows
read_csv(n) == [columns |-> feature_names, index |-> [i \in 1..n |-> i - 1]]

\* a variant that leaves the columns as read
label_first_mut(names) == names

\* feature_names[-1:] + feature_names[:-1]
label_first(names) ==
    Slice(names, Len(names) - 1, Len(names)) \o Slice(names, 0, Len(names) - 1)

\* a split that drops the row at the split point
np_split_mut(frame, k) ==
    << [frame EXCEPT !.index = Slice(frame.index, 0, k)],
       [frame EXCEPT !.index = Slice(frame.index, k + 1, Len(frame.index))] >>

\* frame[cols]: the columns cols of the frame, in the order of cols
select(frame, cols) == [frame EXCEPT !.columns = cols]

\* np.split(frame, [k]): the frames frame[:k] and frame[k:]
np_split(frame, k) ==
    << [frame EXCEPT !.index = Slice(frame.index, 0, k)],
       [frame EXCEPT !.index = Slice(frame.index, k, Len(frame.index))] >>

\* frame.sample(frac=1): the frame with its rows in any order
sample(frame) == {[frame EXCEPT !.index = p] : p \in Shuffles(frame.index)}

\* the cells of the frame, row by row in the order of its columns; the cell of
\* column c in the row labelled i of abalone.csv is written <<c, i>>
Lines(frame) ==
    [r \in DOMAIN frame.index |->
        [c \in DOMAIN frame.columns |-> <<frame.columns[c], frame.index[r]>>]]

\* frame.to_csv(name, index=False, header=False): the cells alone
to_csv(frame) == [header |-> <<>>, lines |-> Lines(frame)]

\* frame.to_parquet(name): the cells with the column names
to_parquet(frame) == [header |-> frame.columns, lines |-> Lines(frame)]

write(frame) == IF nb = "builtin" THEN to_csv(frame) ELSE to_parquet(frame)

FileName(stem) == IF nb = "builtin" THEN <<stem, "csv">> ELSE <<stem, "parquet">>

\* the object s3://sagemaker-sample-files/datasets/tabular/uci_abalone/abalone.csv
SampleKey == <<"sagemaker-sample-files", "datasets/tabular", "uci_abalone", <<"abalone", "csv">> >>

-----------------------------------------------------------------------------
(* The cells of each notebook, in the order the kernel runs them.          *)

\* a variant in which the XGBoost notebooks delete the first endpoint before
\* they call predict on it
Cells_mut ==
    [builtin |-> <<"setup", "load", "reorder", "split", "upload", "estimator",
                   "fit", "deploy", "delete", "predict", "tuner", "tuner_fit",
                   "best", "tuner_deploy", "tuner_predict", "tuner_delete", "done">>,
     script  |-> <<"setup", "load", "reorder", "split", "upload", "estimator",
                   "fit", "deploy", "delete", "predict", "done">>,
     hf      |-> <<"setup", "preprocess", "upload", "estimator", "fit", "model_data",
                   "estimator_resume", "fit_resume", "done">>]

Cells ==
    [builtin |-> <<"setup", "load", "reorder", "split", "upload", "estimator",
                   "fit", "deploy", "predict", "delete", "tuner", "tuner_fit",
                   "best", "tuner_deploy", "tuner_predict", "tuner_delete", "done">>,
     script  |-> <<"setup", "load", "reorder", "split", "upload", "estimator",
                   "fit", "deploy", "predict", "delete", "done">>,
     hf      |-> <<"setup", "preprocess", "upload", "estimator", "fit", "model_data",
                   "estimator_resume", "fit_resume", "done">>]

\* the position of each cell in its notebook
CellPos ==
    [n \in Notebooks |->
        [c \in Range(Cells[n]) |-> CHOOSE i \in DOMAIN Cells[n] : Cells[n][i] = c]]

\* the position of `cell` in the running notebook
Pos(cell) == CellPos[nb][cell]

\* the cell after `cell`
Following(cell) == Cells[nb][Pos(cell) + 1]

\* `cell` has run to its end
Ran(cell) == cell \in Range(Cells[nb]) /\ Pos(pc) > Pos(cell)

\* the kernel is about to run `cell` of notebook n
At(n, cell) == nb \in n /\ pc = cell /\ exc = "none"

\* one SDK call in the log: the cell that makes it, its name, the object it is
\* made on, its outcome, and the state of the remote job or endpoint it reads
Entry(call, on, result, dep) ==
    [cell |-> pc, call |-> call, on |-> on, result |-> result, dep |-> dep,
     value |-> {}]

\* the entry of a call that returns, or acts on, the training job `job`
Returned(entry, job) == [entry EXCEPT !.value = job]

\* what an SDK call may raise: a ValueError, or any other exception
Errors == {"ValueError", "error"}

\* a variant without the handler
caught_never_mut(call, error) == FALSE

\* a variant of the handler below that catches every exception: except Exception
caught_mut(call, error) == nb = "hf" /\ call = "get_execution_role"

\* the exceptions a notebook catches: the Hugging Face setup cell wraps
\* get_execution_role in try / except ValueError; no other cell has a try
caught(call, error) ==
    nb = "hf" /\ call = "get_execution_role" /\ error = "ValueError"

\* the calls of one cell: the first k of `calls` return, and when k < Len(calls)
\* call k+1 raises `error`, which nothing catches: the cell stops there
Called(calls, k, error) ==
    [i \in 1..k |-> Entry(calls[i][1], calls[i][2], "ok", calls[i][3])]
    \o (IF k < Len(calls)
        THEN <<Entry(calls[k + 1][1], calls[k + 1][2], error, calls[k + 1][3])>>
        ELSE <<>>)

Run(calls, k, error) ==
    /\ log' = log \o Called(calls, k, error)
    /\ exc' = IF k < Len(calls) THEN error ELSE "none"
    /\ pc' = IF k < Len(calls) THEN pc ELSE Following(pc)

\* a cell that calls no SDK
Local == log' = log /\ exc' = exc /\ pc' = Following(pc)

-----------------------------------------------------------------------------
(* The initial state: a fresh kernel, and the sample data set in its       *)
(* bucket.                                                                  *)

Fresh(n) ==
    /\ pc = "setup"
    /\ exc = "none"
    /\ use_spot_instances \in (IF nb = "script" THEN {FALSE} ELSE BOOLEAN)
    /\ data = NoFrame /\ train = NoFrame /\ validation = NoFrame
    /\ train_0 = NoFrame /\ train_1 = NoFrame
    /\ files = <<>>
    /\ s3 = (SampleKey :> to_csv(read_csv(n)))
    /\ role = "none"
    /\ estimators = <<>>
    /\ jobs = <<>>
    /\ ckpts = <<>>
    /\ tuning = [status |-> "none"]
    /\ endpoints = <<>>
    /\ log = <<>>

Init == nb \in Notebooks /\ Fresh(FlowRows)

InitPrep == nb \in XgbNotebooks /\ \E n \in 0..MaxRows : Fresh(n)

-----------------------------------------------------------------------------
(* The setup and data preparation cells of the two XGBoost notebooks.      *)

\* role = sagemaker.get_execution_role(); bucket = Session().default_bucket()
XgbSetup ==
    /\ At(XgbNotebooks, "setup")
    /\ \E k \in 0..2, e \in Errors :
        /\ Run(<< <<"get_execution_role", "sagemaker", "none">>,
                  <<"default_bucket", "session", "none">> >>, k, e)
        /\ role' = IF k >= 1 THEN "execution_role" ELSE role
    /\ UNCHANGED <<nb, use_spot_instances, frames, files, s3, remote>>

\* s3.download_file(...); data = pd.read_csv(FILE_NAME, header=None,
\* names=feature_names).  (The cat.codes of column Sex change cells, not rows.)
Load ==
    /\ At(XgbNotebooks, "load")
    /\ \E k \in 0..1, e \in Errors :
        /\ Run(<< <<"download_file", "s3", "none">> >>, k, e)
        /\ IF k = 1
           THEN /\ files' = (<<"abalone", "csv">> :> s3[SampleKey]) @@ files
                /\ data' = read_csv(Len(s3[SampleKey].lines))
           ELSE UNCHANGED <<files, data>>
    /\ UNCHANGED <<nb, use_spot_instances, train, validation, train_0, train_1,
                   s3, role, remote>>

\* data = data[feature_names[-1:] + feature_names[:-1]]
Reorder ==
    /\ At(XgbNotebooks, "reorder")
    /\ data' = select(data, label_first(feature_names))
    /\ Local
    /\ UNCHANGED <<nb, use_spot_instances, train, validation, train_0, train_1,
                   files, s3, role, remote>>

\* train, validation = np.split(data.sample(frac=1), [int(.8*len(data))])
\* train_0, train_1 = np.split(train.sample(frac=1), [int(.5*len(train))])
\* and the three frames written to local files
Split ==
    /\ At(XgbNotebooks, "split")
    /\ \E d \in sample(data) :
        LET tv == np_split(d, split_point(Len(data.index)))
        IN  \E t \in sample(tv[1]) :
            LET sh == np_split(t, shard_point(Len(tv[1].index)))
            IN  /\ train' = tv[1]
                /\ validation' = tv[2]
                /\ train_0' = sh[1]
                /\ train_1' = sh[2]
                /\ files' = (FileName("abalone_train_0") :> write(sh[1]))
                          @@ (FileName("abalone_train_1") :> write(sh[2]))
                          @@ (FileName("abalone_validation") :> write(tv[2]))
                          @@ files
    /\ Local
    /\ UNCHANGED <<nb, use_spot_instances, data, s3, role, remote>>

-----------------------------------------------------------------------------
(* Object storage locations and job configurations.                         *)

\* an optional value is a set: None is the empty set, the value v is {v}
None == {}

Some(v) == {v}

The(x) == CHOOSE v \in x : TRUE

\* sagemaker.Session().default_bucket()
bucket == "default-bucket"

\* a variant in which the two XGBoost notebooks use one prefix
prefix_mut == [builtin |-> "sagemaker/xgboost-dist", script |-> "sagemaker/xgboost-dist"]

\* prefix = 'sagemaker/xgboost-dist-builtin' / 'sagemaker/xgboost-dist-script'
prefix == [builtin |-> "sagemaker/xgboost-dist-builtin",
           script  |-> "sagemaker/xgboost-dist-script"]

\* a variant that uploads every file under the prefix itself
UploadKey_mut(channel, file) == <<bucket, prefix[nb], "data", file>>

\* the key upload_data(file, bucket=bucket, key_prefix=prefix+'/'+channel) writes
UploadKey(channel, file) == <<bucket, prefix[nb], channel, file>>

\* the three uploads of the upload cell, in the order of the cell
Uploads ==
    << <<"train", FileName("abalone_train_0")>>,
       <<"train", FileName("abalone_train_1")>>,
       <<"validation", FileName("abalone_validation")>> >>

\* the defaults of the SDK's estimators for arguments a notebook does not pass
sdk_max_run == 24 * 60 * 60

\* /opt/ml/checkpoints: the local directory the platform synchronises with
\* checkpoint_s3_uri unless checkpoint_local_path overrides it
checkpoint_local_path == "/opt/ml/checkpoints"

\* the built-in notebook: max_run = 3600
max_run == 3600

\* a variant with a max_wait below max_run
max_wait_mut == IF use_spot_instances THEN Some(1800) ELSE None

\* the built-in notebook: max_wait = 7200 if use_spot_instances else None
max_wait == IF use_spot_instances THEN Some(7200) ELSE None

\* the built-in notebook: checkpoint_s3_uri = "s3://{}/{}/checkpoints/{}".format(
\* bucket, prefix, job_name) if use_spot_instances else None
xgb_checkpoint_s3_uri ==
    IF use_spot_instances
    THEN Some(<<bucket, prefix["builtin"], "checkpoints", "DEMO-xgboost-builtin">>)
    ELSE None

instance_count == 2

\* TrainingInput(s3://bucket/prefix/channel/, distribution=..., content_type=...)
TrainingInput(channel, distribution) ==
    [s3_data |-> <<bucket, prefix[nb], channel>>, distribution |-> distribution,
     content_type |-> IF nb = "builtin" THEN "csv" ELSE "parquet"]

\* a variant of the inputs with the train channel replicated
xgb_inputs_mut ==
    [train |-> TrainingInput("train", "FullyReplicated"),
     validation |-> TrainingInput("validation", "FullyReplicated")]

\* {'train': train_input, 'validation': validation_input}
xgb_inputs ==
    [train |-> TrainingInput("train", "ShardedByS3Key"),
     validation |-> TrainingInput("validation", "FullyReplicated")]

\* sagemaker.estimator.Estimator(container, role, ...) of the built-in notebook
builtin_estimator ==
    [image |-> "xgboost:1.5-1",
     role |-> role,
     hyperparameters |-> [max_depth |-> "5", eta |-> "0.2", gamma |-> "4",
                          min_child_weight |-> "6", subsample |-> "0.7",
                          objective |-> "reg:squarederror", num_round |-> "50",
                          verbosity |-> "2"],
     instance_count |-> instance_count,
     instance_type |-> "ml.m5.2xlarge",
     output_path |-> <<bucket, prefix["builtin"], "abalone-xgb", "output">>,
     use_spot_instances |-> use_spot_instances,
     max_run |-> max_run,
     max_wait |-> max_wait,
     checkpoint_s3_uri |-> xgb_checkpoint_s3_uri]

\* XGBoost(source_dir="./", entry_point='abalone.py', ...) of the script notebook
script_estimator ==
    [image |-> "xgboost:1.5-1:abalone.py",
     role |-> role,
     hyperparameters |-> [max_depth |-> "5", eta |-> "0.2", gamma |-> "4",
                          min_child_weight |-> "6", subsample |-> "0.7",
                          objective |-> "reg:squarederror", num_round |-> "50"],
     instance_count |-> instance_count,
     instance_type |-> "ml.m5.2xlarge",
     output_path |-> <<bucket, prefix["script"], "output">>,
     use_spot_instances |-> FALSE,
     max_run |-> sdk_max_run,
     max_wait |-> None,
     checkpoint_s3_uri |-> None]

\* the Hugging Face notebook: max_wait=7200 and max_run=4000 are assigned, and
\* the lines passing them to the two estimators are commented out
hf_max_wait == 7200

hf_max_run == 4000

base_job_name == "emotion-checkpointing-1st-job"

new_base_job_name == "emotion-checkpointing-2nd-job"

\* f's3://{sess.default_bucket()}/{job_name}/checkpoints'
CheckpointUri(job_name) == <<bucket, job_name, "checkpoints">>

\* checkpoint_s3_uri, assigned once from base_job_name
checkpoint_s3_uri == CheckpointUri(base_job_name)

\* a variant that derives the uri again, from new_base_job_name
resume_checkpoint_s3_uri_mut == CheckpointUri(new_base_job_name)

\* the checkpoint_s3_uri argument of huggingface_estimator_resume: the variable
\* checkpoint_s3_uri, which no cell has assigned again
resume_checkpoint_s3_uri == checkpoint_s3_uri

\* a variant that saves the checkpoints with the model artefacts
output_dir_mut == "/opt/ml/model"

\* 'output_dir': '/opt/ml/checkpoints' of both hyperparameters dictionaries
output_dir == "/opt/ml/checkpoints"

\* hyperparameters = {'epochs': epochs, ..., 'output_dir': '/opt/ml/checkpoints'}
hyperparameters(epochs) ==
    [epochs |-> epochs, train_batch_size |-> 32, eval_batch_size |-> 64,
     learning_rate |-> "3e-5", model_id |-> "distilbert-base-uncased",
     fp16 |-> TRUE, output_dir |-> output_dir]

\* HuggingFace(entry_point='train.py', ...): max_wait and max_run are not passed
HuggingFace(job_name, hp, uri) ==
    [image |-> "huggingface:4.12.3:train.py",
     role |-> role,
     hyperparameters |-> hp,
     instance_count |-> 2,
     instance_type |-> "ml.p3dn.24xlarge",
     base_job_name |-> job_name,
     output_path |-> <<bucket, job_name, "output">>,
     use_spot_instances |-> use_spot_instances,
     max_run |-> sdk_max_run,
     max_wait |-> None,
     checkpoint_s3_uri |-> Some(uri)]

huggingface_estimator == HuggingFace(base_job_name, hyperparameters(2), checkpoint_s3_uri)

huggingface_estimator_resume ==
    HuggingFace(new_base_job_name, hyperparameters(3), resume_checkpoint_s3_uri)

\* data = {'train': training_input_path, 'test': test_input_path}
hf_inputs ==
    [train |-> <<bucket, "samples/datasets/emotion", "train">>,
     test |-> <<bucket, "samples/datasets/emotion", "test">>]

-----------------------------------------------------------------------------
(* The upload and estimator cells.                                          *)

\* three sagemaker.Session().upload_data(file, bucket=bucket, key_prefix=...)
Upload ==
    /\ At(XgbNotebooks, "upload")
    /\ \E k \in 0..3, e \in Errors :
        /\ Run([i \in 1..3 |-> <<"upload_data", Uploads[i], "none">>], k, e)
        /\ s3' = [key \in {UploadKey(Uploads[i][1], Uploads[i][2]) : i \in 1..k}
                    |-> files[key[4]]] @@ s3
    /\ UNCHANGED <<nb, use_spot_instances, frames, files, role, remote>>

\* xgb_estimator = Estimator(...) or XGBoost(...); train_input, validation_input
XgbEstimator ==
    /\ At(XgbNotebooks, "estimator")
    /\ estimators' = ("xgb_estimator" :>
            IF nb = "builtin" THEN builtin_estimator ELSE script_estimator)
    /\ Local
    /\ UNCHANGED <<nb, use_spot_instances, frames, files, s3, role, jobs, ckpts,
                   tuning, endpoints>>

-----------------------------------------------------------------------------
(* Training jobs on the platform.                                           *)

LocalPaths == {"/opt/ml/checkpoints", "/opt/ml/model"}

Terminal == {"Completed", "Failed", "Stopped"}

\* a job as the platform creates it
NewJob(cfg, inputs) ==
    [cfg |-> cfg, inputs |-> inputs, status |-> "InProgress", phase |-> "Starting",
     epoch |-> 0, local |-> [p \in LocalPaths |-> {}], restored |-> {},
     started_from |-> None, trained |-> <<>>, interrupts |-> 0, durable |-> 0,
     received |-> <<>>]

\* the S3 location a channel of a job names
Location(input) == IF nb = "hf" THEN input ELSE input.s3_data

\* the objects of object storage under a location
Objects(loc) ==
    {key \in DOMAIN s3 : Len(key) = Len(loc) + 1 /\ Slice(key, 0, Len(loc)) = loc}

\* how a channel is distributed: a TrainingInput says, a plain S3 uri is
\* FullyReplicated
Distribution(input) == IF nb = "hf" THEN "FullyReplicated" ELSE input.distribution

\* ShardedByS3Key: the objects are distributed equally to the n instances, each
\* object to one instance; which instance gets which object is not said
Shards(objs, n) ==
    {d \in [1..n -> SUBSET objs] :
        /\ \A o \in objs : Cardinality({i \in 1..n : o \in d[i]}) = 1
        /\ \A i, k \in 1..n : Cardinality(d[i]) <= Cardinality(d[k]) + 1}

\* what the instances of a job may receive: for each instance and channel, the
\* objects of the channel's location that are copied to the instance
Deliveries(job) ==
    LET n == job.cfg.instance_count
        chs == DOMAIN job.inputs
        objs(ch) == Objects(Location(job.inputs[ch]))
        sharded == {ch \in chs : Distribution(job.inputs[ch]) = "ShardedByS3Key"}
    IN  {[i \in 1..n |-> [ch \in chs |-> IF ch \in sharded THEN d[ch][i] ELSE objs(ch)]]
            : d \in {s \in [sharded -> UNION {Shards(objs(ch), n) : ch \in sharded}] :
                        \A ch \in sharded : s[ch] \in Shards(objs(ch), n)}}

\* the number of epochs the training script runs ('epochs'; the XGBoost jobs
\* run their num_round rounds as one)
Epochs(cfg) ==
    IF "epochs" \in DOMAIN cfg.hyperparameters THEN cfg.hyperparameters.epochs ELSE 1

\* the checkpoints the training script sees in, and writes to, its output_dir
OutputDir(job) ==
    IF "output_dir" \in DOMAIN job.cfg.hyperparameters
    THEN job.cfg.hyperparameters.output_dir
    ELSE "/opt/ml/model"

\* the checkpoints under an optional checkpoint_s3_uri
Stored(uri) == IF uri # None /\ The(uri) \in DOMAIN ckpts THEN ckpts[The(uri)] ELSE {}

\* a variant that never finds a checkpoint
get_last_checkpoint_mut(dir) == None

\* transformers.trainer_utils.get_last_checkpoint: the checkpoint of the
\* directory with the highest number, or None
get_last_checkpoint(dir) == IF dir = {} THEN None ELSE Some(Max(dir))

\* a variant: fit(..., wait=False)
wait_mut == FALSE

\* fit(inputs): the `wait` argument is not passed, so fit waits for the job
wait == TRUE

Running(j) == j \in DOMAIN jobs /\ jobs[j].status = "InProgress"

\* at the start (and restart) of a job the platform copies the checkpoints of
\* checkpoint_s3_uri into the local checkpoint directory of the new instance,
\* and the objects of the input channels to the instances
PlatformRestore(j) ==
    /\ Running(j) /\ jobs[j].phase = "Starting"
    /\ LET found == Stored(jobs[j].cfg.checkpoint_s3_uri)
       IN  \E got \in Deliveries(jobs[j]) :
             jobs' = [jobs EXCEPT ![j].phase = "Restored",
                                  ![j].restored = found,
                                  ![j].received = got,
                                  ![j].local = [p \in LocalPaths |->
                                      IF p = checkpoint_local_path THEN found ELSE {}]]
    /\ UNCHANGED <<nb, pc, exc, log, use_spot_instances, frames, files, s3, role,
                   estimators, ckpts, tuning, endpoints>>

\* train.py: if get_last_checkpoint(args.output_dir) is not None:
\*     trainer.train(resume_from_checkpoint=last_checkpoint)  else: trainer.train()
ScriptStart(j) ==
    /\ Running(j) /\ jobs[j].phase = "Restored"
    /\ LET last == get_last_checkpoint(jobs[j].local[OutputDir(jobs[j])])
       IN  jobs' = [jobs EXCEPT ![j].phase = "Training",
                                ![j].started_from = last,
                                ![j].epoch = IF last # None THEN The(last) ELSE 0]
    /\ UNCHANGED <<nb, pc, exc, log, use_spot_instances, frames, files, s3, role,
                   estimators, ckpts, tuning, endpoints>>

\* the training script trains one more epoch and saves its checkpoint
TrainEpoch(j) ==
    /\ Running(j) /\ jobs[j].phase = "Training"
    /\ jobs[j].epoch < Epochs(jobs[j].cfg)
    /\ LET e == jobs[j].epoch + 1
           dir == OutputDir(jobs[j])
       IN  jobs' = [jobs EXCEPT ![j].epoch = e,
                                ![j].trained = Append(@, e),
                                ![j].local[dir] = @ \cup {e}]
    /\ UNCHANGED <<nb, pc, exc, log, use_spot_instances, frames, files, s3, role,
                   estimators, ckpts, tuning, endpoints>>

\* the checkpoints of uri after the platform has copied the local directory
Synced(j) ==
    LET uri == jobs[j].cfg.checkpoint_s3_uri
    IN  IF uri = None THEN ckpts
        ELSE (The(uri) :> (Stored(uri) \cup jobs[j].local[checkpoint_local_path]))
             @@ ckpts

\* during training the platform copies what is written to the local
\* checkpoint directory to checkpoint_s3_uri
PlatformSync(j) ==
    /\ Running(j) /\ jobs[j].phase = "Training"
    /\ Synced(j) # ckpts
    /\ ckpts' = Synced(j)
    /\ UNCHANGED <<nb, pc, exc, log, use_spot_instances, frames, files, s3, role,
                   estimators, jobs, tuning, endpoints>>

\* the key of the model artifact of job j
ModelData(j) ==
    <<jobs[j].cfg.output_path[1], jobs[j].cfg.output_path[2], j, <<"model", "tar.gz">> >>

\* the script has ended: the platform uploads the last checkpoints and the
\* model.tar.gz, the job is Completed and its instances are released
PlatformComplete(j) ==
    /\ Running(j) /\ jobs[j].phase = "Training"
    /\ jobs[j].epoch >= Epochs(jobs[j].cfg)
    /\ ckpts' = Synced(j)
    /\ s3' = (ModelData(j) :> [header |-> <<>>, lines |-> <<>>]) @@ s3
    /\ jobs' = [jobs EXCEPT ![j].status = "Completed", ![j].received = <<>>]
    /\ UNCHANGED <<nb, pc, exc, log, use_spot_instances, frames, files, role,
                   estimators, tuning, endpoints>>

\* the job fails, or is stopped (from the console, or at max_run or max_wait)
PlatformEnd(j) ==
    /\ Running(j)
    /\ \E how \in {"Failed", "Stopped"} :
          jobs' = [jobs EXCEPT ![j].status = how, ![j].received = <<>>]
    /\ UNCHANGED <<nb, pc, exc, log, use_spot_instances, frames, files, s3, role,
                   estimators, ckpts, tuning, endpoints>>

\* the platform reclaims the spot capacity of the job: the instance and its
\* local storage are lost and the job starts again on a new one
PlatformInterrupt(j) ==
    /\ Running(j) /\ jobs[j].cfg.use_spot_instances
    /\ jobs[j].interrupts < MaxInterrupts
    /\ LET saved == Stored(jobs[j].cfg.checkpoint_s3_uri)
       IN  jobs' = [jobs EXCEPT ![j].phase = "Starting",
                                ![j].epoch = 0,
                                ![j].local = [p \in LocalPaths |-> {}],
                                ![j].received = <<>>,
                                ![j].interrupts = @ + 1,
                                ![j].durable = IF saved = {} THEN 0 ELSE Max(saved)]
    /\ UNCHANGED <<nb, pc, exc, log, use_spot_instances, frames, files, s3, role,
                   estimators, ckpts, tuning, endpoints>>

JobNames == {"xgb_estimator", "huggingface_estimator", "huggingface_estimator_resume"}

Platform ==
    \E j \in JobNames :
        \/ PlatformRestore(j)
        \/ ScriptStart(j)
        \/ TrainEpoch(j)
        \/ PlatformSync(j)
        \/ PlatformComplete(j)
        \/ PlatformEnd(j)
        \/ PlatformInterrupt(j)

\* estimator.fit(inputs): the SDK creates the training job ...
FitSubmit(est, inputs) ==
    /\ est \in DOMAIN estimators /\ est \notin DOMAIN jobs
    /\ \/ /\ jobs' = (est :> NewJob(estimators[est], inputs)) @@ jobs
          /\ log' = Append(log, Entry("fit", est, "submitted", "none"))
          /\ pc' = IF wait THEN pc ELSE Following(pc)
          /\ exc' = exc
       \/ /\ \E e \in Errors : Run(<< <<"fit", est, "none">> >>, 0, e)
          /\ jobs' = jobs
    /\ UNCHANGED <<nb, use_spot_instances, frames, files, s3, role, estimators,
                   ckpts, tuning, endpoints>>

\* ... and waits until the job has ended: fit returns when the job is Completed
\* and raises when it has failed or was stopped
FitReturn(est) ==
    /\ est \in DOMAIN jobs /\ jobs[est].status \in Terminal
    /\ \/ /\ jobs[est].status = "Completed"
          /\ Run(<< <<"fit.wait", est, jobs[est].status>> >>, 1, "error")
       \/ /\ jobs[est].status # "Completed"
          /\ Run(<< <<"fit.wait", est, jobs[est].status>> >>, 0, "error")
    /\ UNCHANGED <<nb, use_spot_instances, frames, files, s3, role, remote>>

\* xgb_estimator.fit({'train': train_input, 'validation': validation_input})
XgbFit ==
    /\ At(XgbNotebooks, "fit")
    /\ FitSubmit("xgb_estimator", xgb_inputs) \/ FitReturn("xgb_estimator")

-----------------------------------------------------------------------------
(* Endpoints: deploy, predict, delete_endpoint.                             *)

JobStatus(est) == IF est \in DOMAIN jobs THEN jobs[est].status ELSE "none"

EndpointState(p) == IF p \in DOMAIN endpoints THEN endpoints[p] ELSE "none"

\* p = source.deploy(...): the endpoint is created from the model of a
\* completed job (tuner.deploy: of the best training job of the tuning job);
\* any failure is raised
Deploy(p, source, ready, dep) ==
    /\ \/ /\ ready
          /\ log' = Append(log, Returned(Entry("deploy", source, "ok", dep),
                                         IF source = "tuner" THEN tuning.best ELSE {}))
          /\ pc' = Following(pc)
          /\ exc' = exc
          /\ endpoints' = (p :> "InService") @@ endpoints
       \/ /\ \E e \in Errors : Run(<< <<"deploy", source, dep>> >>, 0, e)
          /\ endpoints' = endpoints
    /\ UNCHANGED <<nb, use_spot_instances, frames, files, s3, role, estimators,
                   jobs, ckpts, tuning>>

\* array = data.iloc[:5, 1:].to_numpy(); prediction = p.predict(array)
Predict(p) ==
    /\ \/ /\ EndpointState(p) = "InService"
          /\ Run(<< <<"predict", p, EndpointState(p)>> >>, 1, "error")
       \/ \E e \in Errors : Run(<< <<"predict", p, EndpointState(p)>> >>, 0, e)
    /\ UNCHANGED <<nb, use_spot_instances, frames, files, s3, role, remote>>

\* a variant that returns and leaves the endpoint in service
DeleteEndpoint_mut(p) ==
    /\ EndpointState(p) = "InService"
    /\ Run(<< <<"delete_endpoint", p, EndpointState(p)>> >>, 1, "error")
    /\ UNCHANGED <<nb, use_spot_instances, frames, files, s3, role, remote>>

\* p.delete_endpoint()
DeleteEndpoint(p) ==
    /\ \/ /\ EndpointState(p) = "InService"
          /\ Run(<< <<"delete_endpoint", p, EndpointState(p)>> >>, 1, "error")
          /\ endpoints' = [endpoints EXCEPT ![p] = "Deleted"]
       \/ /\ \E e \in Errors :
                Run(<< <<"delete_endpoint", p, EndpointState(p)>> >>, 0, e)
          /\ endpoints' = endpoints
    /\ UNCHANGED <<nb, use_spot_instances, frames, files, s3, role, estimators,
                   jobs, ckpts, tuning>>

XgbDeploy ==
    /\ At(XgbNotebooks, "deploy")
    /\ Deploy("predictor", "xgb_estimator", JobStatus("xgb_estimator") = "Completed",
              JobStatus("xgb_estimator"))

XgbPredict == At(XgbNotebooks, "predict") /\ Predict("predictor")

XgbDelete == At(XgbNotebooks, "delete") /\ DeleteEndpoint("predictor")

-----------------------------------------------------------------------------
(* Automatic model tuning in the built-in notebook.                         *)

max_jobs == 20

max_parallel_jobs == 3

\* the values of validation:rmse a training job of the tuning job may report
Rmse == {1, 2}

\* a variant of the tuner that maximizes
objective_type_mut == "Maximize"

\* objective_type='Minimize'
objective_type == "Minimize"

\* the best training job of the tuning job once a job has completed with the
\* value m of the objective metric: the service keeps the job it had unless the
\* new one is better in the sense of objective_type.  A best job is named by
\* its ordinal among the jobs that have been the best one.
BestAfter(m) ==
    IF tuning.best = None
    THEN Some([holder |-> 1, rmse |-> m])
    ELSE LET b == The(tuning.best)
             better == IF tuning.objective_type = "Minimize" THEN m < b.rmse
                                                             ELSE m > b.rmse
         IN  IF better THEN Some([holder |-> b.holder + 1, rmse |-> m])
                       ELSE tuning.best

\* the least validation:rmse reported by the completed jobs, m included
LeastAfter(m) ==
    IF tuning.least = None \/ m < The(tuning.least) THEN Some(m) ELSE tuning.least

\* hyperparameter_ranges, objective_metric_name and
\* tuner = HyperparameterTuner(xgb_estimator, ..., max_jobs=20, max_parallel_jobs=3)
TunerCreate ==
    /\ At({"builtin"}, "tuner")
    /\ tuning' = [estimator |-> estimators["xgb_estimator"],
                  objective_metric_name |-> "validation:rmse",
                  objective_type |-> objective_type,
                  hyperparameter_ranges |-> [eta |-> <<"0.1", "0.9">>,
                                             max_depth |-> <<2, 8>>],
                  max_jobs |-> max_jobs,
                  max_parallel_jobs |-> max_parallel_jobs,
                  status |-> "NotStarted",
                  launched |-> 0, running |-> 0, completed |-> 0, failed |-> 0,
                  best |-> None, least |-> None]
    /\ Local
    /\ UNCHANGED <<nb, use_spot_instances, frames, files, s3, role, estimators,
                   jobs, ckpts, endpoints>>

TuningStatus == tuning.status

\* tuner.fit({'train': train_input, 'validation': validation_input}): the SDK
\* creates the tuning job and waits until it has ended
TunerFit ==
    /\ At({"builtin"}, "tuner_fit")
    /\ \/ /\ TuningStatus = "NotStarted"
          /\ \/ /\ tuning' = [tuning EXCEPT !.status = "InProgress"]
                /\ log' = Append(log, Entry("fit", "tuner", "submitted", "none"))
                /\ pc' = IF wait THEN pc ELSE Following(pc)
                /\ exc' = exc
             \/ /\ \E e \in Errors : Run(<< <<"fit", "tuner", "none">> >>, 0, e)
                /\ tuning' = tuning
       \/ /\ TuningStatus \in Terminal
          /\ Run(<< <<"fit.wait", "tuner", TuningStatus>> >>, 1, "error")
          /\ tuning' = tuning
    /\ UNCHANGED <<nb, use_spot_instances, frames, files, s3, role, estimators,
                   jobs, ckpts, endpoints>>

\* a variant that launches without regard to the jobs that are running
TuningLaunch_mut ==
    /\ TuningStatus = "InProgress"
    /\ tuning.launched < tuning.max_jobs
    /\ tuning' = [tuning EXCEPT !.launched = @ + 1, !.running = @ + 1]
    /\ UNCHANGED <<nb, pc, exc, log, use_spot_instances, frames, files, s3, role,
                   estimators, jobs, ckpts, endpoints>>

\* the tuning job launches a training job: at most max_jobs in all and at most
\* max_parallel_jobs at a time
TuningLaunch ==
    /\ TuningStatus = "InProgress"
    /\ tuning.launched < tuning.max_jobs
    /\ tuning.running < tuning.max_parallel_jobs
    /\ tuning' = [tuning EXCEPT !.launched = @ + 1, !.running = @ + 1]
    /\ UNCHANGED <<nb, pc, exc, log, use_spot_instances, frames, files, s3, role,
                   estimators, jobs, ckpts, endpoints>>

\* one of the running training jobs of the tuning job ends: it completes and
\* reports its validation:rmse, or it fails
TuningJobEnds ==
    /\ TuningStatus = "InProgress"
    /\ tuning.running > 0
    /\ \/ \E m \in Rmse :
             tuning' = [tuning EXCEPT !.running = @ - 1, !.completed = @ + 1,
                                      !.best = BestAfter(m), !.least = LeastAfter(m)]
       \/ tuning' = [tuning EXCEPT !.running = @ - 1, !.failed = @ + 1]
    /\ UNCHANGED <<nb, pc, exc, log, use_spot_instances, frames, files, s3, role,
                   estimators, jobs, ckpts, endpoints>>

\* the tuning job ends: all its training jobs have ended, or it fails or is
\* stopped and its running training jobs are stopped with it
TuningEnds ==
    /\ TuningStatus = "InProgress"
    /\ \/ /\ tuning.launched = tuning.max_jobs /\ tuning.running = 0
          /\ tuning' = [tuning EXCEPT !.status = "Completed"]
       \/ \E how \in {"Failed", "Stopped"} :
             tuning' = [tuning EXCEPT !.status = how, !.running = 0,
                                      !.failed = @ + tuning.running]
    /\ UNCHANGED <<nb, pc, exc, log, use_spot_instances, frames, files, s3, role,
                   estimators, jobs, ckpts, endpoints>>

\* tuner.best_training_job(): raises when no training job of the tuning job
\* has completed
Best ==
    /\ At({"builtin"}, "best")
    /\ \/ /\ TuningStatus # "none" /\ tuning.completed > 0
          /\ log' = Append(log, Returned(Entry("best_training_job", "tuner", "ok",
                                               TuningStatus), tuning.best))
          /\ pc' = Following(pc)
          /\ exc' = exc
       \/ \E e \in Errors :
             Run(<< <<"best_training_job", "tuner", TuningStatus>> >>, 0, e)
    /\ UNCHANGED <<nb, use_spot_instances, frames, files, s3, role, remote>>

TunerDeploy ==
    /\ At({"builtin"}, "tuner_deploy")
    /\ Deploy("tuner_predictor", "tuner",
              TuningStatus # "none" /\ tuning.completed > 0, TuningStatus)

TunerPredict == At({"builtin"}, "tuner_predict") /\ Predict("tuner_predictor")

TunerDelete == At({"builtin"}, "tuner_delete") /\ DeleteEndpoint("tuner_predictor")

-----------------------------------------------------------------------------
(* The cells of the Hugging Face notebook.                                  *)

\* sess.default_bucket(); try: role = sagemaker.get_execution_role()
\* except ValueError: role = iam.get_role(RoleName='sagemaker_execution_role')
HFSetup ==
    /\ At({"hf"}, "setup")
    /\ LET db == <<"default_bucket", "session", "none">>
           ger == <<"get_execution_role", "sagemaker", "none">>
           iam == <<"get_role", "iam", "none">>
       IN  \/ /\ \E e \in Errors : Run(<<db>>, 0, e)
              /\ role' = role
           \/ /\ Run(<<db, ger>>, 2, "error")
              /\ role' = "execution_role"
           \/ \E e \in Errors :
                IF caught("get_execution_role", e)
                THEN \/ /\ log' = log \o Called(<<db, ger>>, 1, e) \o Called(<<iam>>, 1, e)
                        /\ role' = "sagemaker_execution_role"
                        /\ pc' = Following(pc)
                        /\ exc' = "none"
                     \/ \E e2 \in Errors :
                        /\ log' = log \o Called(<<db, ger>>, 1, e) \o Called(<<iam>>, 0, e2)
                        /\ role' = role
                        /\ pc' = pc
                        /\ exc' = e2
                ELSE /\ Run(<<db, ger>>, 1, e)
                     /\ role' = role
    /\ UNCHANGED <<nb, use_spot_instances, frames, files, s3, remote>>

Dataset == [header |-> <<"input_ids", "attention_mask", "labels">>, lines |-> <<>>]

\* tokenizer = AutoTokenizer.from_pretrained(model_id); load_dataset(...);
\* the two datasets tokenized and formatted
HFPreprocess ==
    /\ At({"hf"}, "preprocess")
    /\ \E k \in 0..2, e \in Errors :
        /\ Run(<< <<"from_pretrained", "AutoTokenizer", "none">>,
                  <<"load_dataset", "datasets", "none">> >>, k, e)
        /\ files' = IF k = 2
                    THEN (<<"train_dataset", "arrow">> :> Dataset)
                         @@ (<<"test_dataset", "arrow">> :> Dataset) @@ files
                    ELSE files
    /\ UNCHANGED <<nb, use_spot_instances, frames, s3, role, remote>>

\* train_dataset.save_to_disk(training_input_path, fs=s3); test_dataset likewise
HFUpload ==
    /\ At({"hf"}, "upload")
    /\ \E k \in 0..2, e \in Errors :
        /\ Run(<< <<"save_to_disk", "train_dataset", "none">>,
                  <<"save_to_disk", "test_dataset", "none">> >>, k, e)
        /\ s3' = [key \in {<<bucket, "samples/datasets/emotion",
                              <<"train", "test">>[i], <<"dataset", "arrow">> >>
                            : i \in 1..k} |-> Dataset] @@ s3
    /\ UNCHANGED <<nb, use_spot_instances, frames, files, role, remote>>

\* a variant in which the new estimator is the one object behind every name
Construct_mut(name, cfg) == [e \in DOMAIN estimators \cup {name} |-> cfg]

\* name = HuggingFace(...): a new estimator object, built from the values the
\* variables have when the cell runs, is bound to `name`; the objects bound
\* to other names are left as they are
Construct(name, cfg) == (name :> cfg) @@ estimators

\* use_spot_instances, max_wait, max_run; base_job_name, checkpoint_s3_uri;
\* distribution; hyperparameters (epochs 2); huggingface_estimator = HuggingFace(...)
HFEstimator ==
    /\ At({"hf"}, "estimator")
    /\ estimators' = Construct("huggingface_estimator", huggingface_estimator)
    /\ Local
    /\ UNCHANGED <<nb, use_spot_instances, frames, files, s3, role, jobs, ckpts,
                   tuning, endpoints>>

\* huggingface_estimator.fit(data, logs="None")
HFFit ==
    /\ At({"hf"}, "fit")
    /\ \/ FitSubmit("huggingface_estimator", hf_inputs)
       \/ FitReturn("huggingface_estimator")

\* print(checkpoint_s3_uri); print(huggingface_estimator.model_data)
HFModelData ==
    /\ At({"hf"}, "model_data")
    /\ \E k \in 0..1, e \in Errors :
        Run(<< <<"model_data", "huggingface_estimator",
                 JobStatus("huggingface_estimator")>> >>, k, e)
    /\ UNCHANGED <<nb, use_spot_instances, frames, files, s3, role, remote>>

\* new_base_job_name; hyperparameters (epochs 3);
\* huggingface_estimator_resume = HuggingFace(...)
HFEstimatorResume ==
    /\ At({"hf"}, "estimator_resume")
    /\ estimators' = Construct("huggingface_estimator_resume",
                                huggingface_estimator_resume)
    /\ Local
    /\ UNCHANGED <<nb, use_spot_instances, frames, files, s3, role, jobs, ckpts,
                   tuning, endpoints>>

\* huggingface_estimator_resume.fit(data)
HFFitResume ==
    /\ At({"hf"}, "fit_resume")
    /\ \/ FitSubmit("huggingface_estimator_resume", hf_inputs)
       \/ FitReturn("huggingface_estimator_resume")

-----------------------------------------------------------------------------
(* The specifications: a whole notebook, and the data preparation alone.    *)

Next ==
    \/ XgbSetup \/ Load \/ Reorder \/ Split \/ Upload \/ XgbEstimator \/ XgbFit
    \/ XgbDeploy \/ XgbPredict \/ XgbDelete
    \/ TunerCreate \/ TunerFit \/ Best \/ TunerDeploy \/ TunerPredict \/ TunerDelete
    \/ HFSetup \/ HFPreprocess \/ HFUpload \/ HFEstimator \/ HFFit \/ HFModelData
    \/ HFEstimatorResume \/ HFFitResume
    \/ Platform \/ TuningLaunch \/ TuningJobEnds \/ TuningEnds

Spec == Init /\ [][Next]_vars

NextPrep == XgbSetup \/ Load \/ Reorder \/ Split

SpecPrep == InitPrep /\ [][NextPrep]_vars

\* a run in which the service does end a tuning job that can end
SpecTuning == Spec /\ WF_vars(TuningEnds)

-----------------------------------------------------------------------------
(* C1: whatever the shuffles, train and validation partition the rows of   *)
(* data: their sizes sum to the number of rows, every row of data is in    *)
(* exactly one of them, and no row appears twice.                          *)
SplitPartitions ==
    Ran("split") =>
        /\ Len(train.index) + Len(validation.index) = Len(data.index)
        /\ Range(train.index) \cup Range(validation.index) = Range(data.index)
        /\ Range(train.index) \cap Range(validation.index) = {}
        /\ Cardinality(Range(train.index)) = Len(train.index)
        /\ Cardinality(Range(validation.index)) = Len(validation.index)
        /\ Cardinality(Range(data.index)) = Len(s3[SampleKey].lines)

\* a split of five rows whose shuffle moved rows
SplitPartitionsWitness ==
    /\ Ran("split")
    /\ Len(data.index) = 5
    /\ train.index = <<4, 0, 3, 1>>
    /\ validation.index = <<2>>

(* C2: after the reordering cell the label column Rings is column 0, the   *)
(* eight features follow in their original order, and the columns and rows *)
(* are those that were loaded.                                             *)
LabelFirst ==
    Ran("reorder") =>
        /\ data.columns[1] = "Rings"
        /\ \A i \in 2..9 : data.columns[i] = feature_names[i - 1]
        /\ Len(data.columns) = 9
        /\ Range(data.columns) = Range(feature_names)
        /\ data.index = read_csv(Len(s3[SampleKey].lines)).index

\* the reordering has run on a frame with rows
LabelFirstWitness ==
    /\ pc = "split"
    /\ Len(data.index) = 3
    /\ data.columns[1] = "Rings"
    /\ data.columns[2] = "Sex"

(* C10: the split is 80/20: train has floor(0.8*N) rows and validation the *)
(* other N - floor(0.8*N).                                                 *)
EightyTwenty ==
    Ran("split") =>
        LET N == Len(data.index)
        IN  /\ Len(train.index) = (8 * N) \div 10
            /\ Len(validation.index) = N - (8 * N) \div 10
            /\ (N % 5 = 0 => Len(train.index) = 4 * Len(validation.index))
            /\ (N < 2 => Len(train.index) = 0)

\* a split of five rows, four to one
EightyTwentyWitness ==
    Ran("split") /\ Len(train.index) = 4 /\ Len(validation.index) = 1

-----------------------------------------------------------------------------
(* Claims about the whole notebooks.                                        *)

\* the entries of the log whose call raised
Raised(i) == log[i].result \in Errors

\* the calls that read the result of a training or tuning job
Dependent == {"deploy", "best_training_job", "model_data"}

\* the fit cells of the notebook and the job each one waits for
FitCells ==
    CASE nb = "builtin" -> {<<"fit", JobStatus("xgb_estimator")>>,
                            <<"tuner_fit", TuningStatus>>}
      [] nb = "script"  -> {<<"fit", JobStatus("xgb_estimator")>>}
      [] nb = "hf"      -> {<<"fit", JobStatus("huggingface_estimator")>>,
                            <<"fit_resume", JobStatus("huggingface_estimator_resume")>>}

NothingCaught ==
    \A i \in DOMAIN log : Raised(i) => i = Len(log) /\ exc = log[i].result

(* C4, amended: the only exception a notebook catches is the ValueError of *)
(* get_execution_role in the Hugging Face setup cell, after which          *)
(* iam.get_role is called in its place; every other exception of an SDK    *)
(* call stops the run at that call.                                        *)
OnlyRoleLookupCaught ==
    \A i \in DOMAIN log :
        Raised(i) =>
            \/ i = Len(log) /\ exc = log[i].result
            \/ /\ nb = "hf"
               /\ log[i].call = "get_execution_role"
               /\ log[i].result = "ValueError"
               /\ i < Len(log)
               /\ log[i + 1].call = "get_role"
               /\ log[i + 1].cell = log[i].cell

\* the role lookup fell back to iam.get_role, and the run later stopped at a
\* fit whose job had failed
OnlyRoleLookupCaughtWitness ==
    /\ nb = "hf"
    /\ role = "sagemaker_execution_role"
    /\ exc = "error"
    /\ log[Len(log)].call = "fit.wait"
    /\ log[Len(log)].dep = "Failed"

FirstJob == jobs["huggingface_estimator"]

ResumeJob == jobs["huggingface_estimator_resume"]

(* C5: when the first job has finished with two checkpoints under          *)
(* checkpoint_s3_uri, the second job restores them at its start, trains    *)
(* from the third epoch on (never epochs 1 and 2), and when it completes   *)
(* checkpoint_s3_uri holds exactly three checkpoints.                      *)
ResumeFromThirdEpoch ==
    ( /\ nb = "hf"
      /\ "huggingface_estimator_resume" \in DOMAIN jobs
      /\ FirstJob.status = "Completed"
      /\ {1, 2} \subseteq Stored(Some(checkpoint_s3_uri)) ) =>
        /\ ResumeJob.phase # "Starting" => {1, 2} \subseteq ResumeJob.restored
        /\ ResumeJob.phase = "Training" =>
              ResumeJob.started_from # None /\ The(ResumeJob.started_from) >= 2
        /\ \A i \in DOMAIN ResumeJob.trained : ResumeJob.trained[i] = 3
        /\ ResumeJob.status = "Completed" =>
              /\ Stored(Some(checkpoint_s3_uri)) = {1, 2, 3}
              /\ ResumeJob.trained # <<>>

\* the second job has completed, having trained the third epoch alone
ResumeFromThirdEpochWitness ==
    /\ nb = "hf" /\ pc = "done"
    /\ ResumeJob.status = "Completed"
    /\ ResumeJob.started_from = Some(2)
    /\ ResumeJob.trained = <<3>>
    /\ Stored(Some(checkpoint_s3_uri)) = {1, 2, 3}

(* C6: the resuming estimator has the checkpoint_s3_uri of the first one,  *)
(* the one derived from the first base_job_name; both jobs write their     *)
(* checkpoints to /opt/ml/checkpoints, the directory the platform keeps in *)
(* step with that uri, so what a completed job trained is under the uri.   *)
SameCheckpointUri ==
    nb = "hf" =>
        /\ \A e \in DOMAIN estimators :
              /\ estimators[e].checkpoint_s3_uri =
                    Some(<<bucket, "emotion-checkpointing-1st-job", "checkpoints">>)
              /\ estimators[e].hyperparameters.output_dir = "/opt/ml/checkpoints"
              /\ estimators[e].hyperparameters.output_dir = checkpoint_local_path
        /\ "huggingface_estimator_resume" \in DOMAIN estimators =>
              /\ estimators["huggingface_estimator_resume"].checkpoint_s3_uri
                    = estimators["huggingface_estimator"].checkpoint_s3_uri
              /\ estimators["huggingface_estimator_resume"].base_job_name
                    # estimators["huggingface_estimator"].base_job_name
        /\ \A j \in DOMAIN jobs :
              /\ jobs[j].cfg = estimators[j]
              /\ jobs[j].status = "Completed" =>
                    Range(jobs[j].trained) \subseteq Stored(jobs[j].cfg.checkpoint_s3_uri)

\* both jobs have been submitted with their estimators' configurations
SameCheckpointUriWitness ==
    /\ nb = "hf"
    /\ DOMAIN jobs = {"huggingface_estimator", "huggingface_estimator_resume"}
    /\ ResumeJob.status = "Completed"
    /\ ResumeJob.cfg.base_job_name = new_base_job_name

(* C7: the training script starts from the last checkpoint whenever its    *)
(* output directory holds one and from scratch only when it holds none; a  *)
(* job restarted after an interruption is never behind the last checkpoint *)
(* that was in object storage when it was interrupted.                     *)
ResumeFromLastCheckpoint ==
    nb = "hf" =>
        \A j \in DOMAIN jobs :
            jobs[j].phase = "Training" =>
                /\ jobs[j].restored = {} <=> jobs[j].started_from = None
                /\ jobs[j].restored # {} =>
                      jobs[j].started_from = Some(Max(jobs[j].restored))
                /\ jobs[j].interrupts > 0 => jobs[j].epoch >= jobs[j].durable

\* the first job was interrupted after its first checkpoint had reached object
\* storage, and has started again from that checkpoint
ResumeFromLastCheckpointWitness ==
    /\ nb = "hf"
    /\ "huggingface_estimator" \in DOMAIN jobs
    /\ FirstJob.interrupts = 1
    /\ FirstJob.durable = 1
    /\ FirstJob.phase = "Training"
    /\ FirstJob.started_from = Some(1)
    /\ FirstJob.epoch = 1

(* C8: in the built-in notebook max_wait is set exactly when               *)
(* use_spot_instances is true and is then at least max_run, and            *)
(* checkpoint_s3_uri is set exactly when use_spot_instances is true.       *)
SpotLimits ==
    (nb = "builtin" /\ "xgb_estimator" \in DOMAIN estimators) =>
        LET cfg == estimators["xgb_estimator"]
        IN  /\ cfg.use_spot_instances = use_spot_instances
            /\ cfg.max_wait # None <=> cfg.use_spot_instances
            /\ cfg.max_wait # None => The(cfg.max_wait) >= cfg.max_run
            /\ cfg.checkpoint_s3_uri # None <=> cfg.use_spot_instances

\* the estimator of a spot run
SpotLimitsWitness ==
    /\ nb = "builtin" /\ "xgb_estimator" \in DOMAIN estimators
    /\ estimators["xgb_estimator"].use_spot_instances
    /\ estimators["xgb_estimator"].max_wait = Some(7200)
    /\ estimators["xgb_estimator"].max_run = 3600

(* C9: in the Hugging Face notebook an estimator that is given the spot    *)
(* flag is given max_wait and max_run too, with max_wait > max_run.        *)
HFSpotLimits ==
    nb = "hf" =>
        \A e \in DOMAIN estimators :
            estimators[e].use_spot_instances =>
                /\ estimators[e].max_wait = Some(hf_max_wait)
                /\ estimators[e].max_run = hf_max_run
                /\ The(estimators[e].max_wait) > estimators[e].max_run

(* C11: once the job of an estimator has been submitted, no step changes   *)
(* the configuration or the input channels recorded in the job, nor the    *)
(* estimator it was submitted from: not the cells that bind hyperparameters *)
(* and build the second Hugging Face estimator, and not the tuner that is  *)
(* built from xgb_estimator.                                               *)
ConfigFrozen ==
    [][\A e \in DOMAIN jobs :
          /\ e \in DOMAIN jobs'
          /\ jobs'[e].cfg = jobs[e].cfg
          /\ jobs'[e].inputs = jobs[e].inputs
          /\ e \in DOMAIN estimators'
          /\ estimators'[e] = estimators[e]
          /\ jobs'[e].cfg = estimators'[e]]_vars

\* the second Hugging Face estimator has been built with epochs = 3 and its job
\* has run, and the first job still records epochs = 2
ConfigFrozenWitness ==
    /\ nb = "hf" /\ pc = "done"
    /\ FirstJob.cfg.hyperparameters.epochs = 2
    /\ FirstJob.cfg.base_job_name = base_job_name
    /\ estimators["huggingface_estimator"].hyperparameters.epochs = 2
    /\ estimators["huggingface_estimator_resume"].hyperparameters.epochs = 3
    /\ ResumeJob.cfg.hyperparameters.epochs = 3

\* the files the notebook prepares for a channel
Prepared(channel) ==
    IF nb = "hf"
    THEN {<<"dataset", "arrow">>}
    ELSE {Uploads[i][2] : i \in {k \in DOMAIN Uploads : Uploads[k][1] = channel}}

\* every file prepared for the channel is under the location the channel names,
\* with the content it has on the local disk
Uploaded(channel, input) ==
    /\ Prepared(channel) # {}
    /\ \A f \in Prepared(channel) :
          /\ Location(input) \o <<f>> \in DOMAIN s3
          /\ nb # "hf" => s3[Location(input) \o <<f>>] = files[f]

(* C12: data is loaded and uploaded before any job is submitted: when a    *)
(* training job or the tuning job has been submitted, every file prepared  *)
(* for each of its channels is in object storage under the location the    *)
(* channel names, and no download or upload call follows a fit call.       *)
InputsUploaded ==
    /\ \A j \in DOMAIN jobs :
          /\ DOMAIN jobs[j].inputs =
                (IF nb = "hf" THEN {"train", "test"} ELSE {"train", "validation"})
          /\ \A ch \in DOMAIN jobs[j].inputs : Uploaded(ch, jobs[j].inputs[ch])
    /\ TuningStatus \notin {"none", "NotStarted"} =>
          \A ch \in DOMAIN xgb_inputs : Uploaded(ch, xgb_inputs[ch])
    /\ \A i \in DOMAIN log :
          log[i].call \in {"download_file", "load_dataset", "upload_data", "save_to_disk"}
            => \A k \in 1..(i - 1) : log[k].call # "fit"

\* the job of the script notebook has been submitted with its three files uploaded
InputsUploadedWitness ==
    /\ nb = "script"
    /\ "xgb_estimator" \in DOMAIN jobs
    /\ Cardinality(Objects(xgb_inputs.train.s3_data)) = 2
    /\ Cardinality(Objects(xgb_inputs.validation.s3_data)) = 1

\* the endpoints that are hosted
Hosted == {p \in DOMAIN endpoints : endpoints[p] # "Deleted"}

(* C13: when the last cell of an XGBoost notebook has run, every endpoint  *)
(* the notebook deployed has been deleted; in the built-in notebook the    *)
(* endpoint of predictor is deleted before that of tuner_predictor is      *)
(* deployed, and at no time is more than one endpoint hosted.              *)
EndpointsDeleted ==
    nb \in XgbNotebooks =>
        /\ pc = "done" =>
              /\ Hosted = {}
              /\ DOMAIN endpoints =
                    (IF nb = "builtin" THEN {"predictor", "tuner_predictor"}
                                        ELSE {"predictor"})
        /\ "tuner_predictor" \in DOMAIN endpoints =>
              "predictor" \in DOMAIN endpoints /\ endpoints["predictor"] = "Deleted"
        /\ Cardinality(Hosted) <= 1
        /\ \A i \in DOMAIN log :
              (log[i].call = "deploy" /\ log[i].on = "tuner" /\ log[i].result = "ok") =>
                \E k \in 1..(i - 1) :
                    /\ log[k].call = "delete_endpoint"
                    /\ log[k].on = "predictor"
                    /\ log[k].result = "ok"

\* the built-in notebook has run to its end: both endpoints were deployed and
\* both are deleted
EndpointsDeletedWitness ==
    /\ nb = "builtin" /\ pc = "done"
    /\ DOMAIN endpoints = {"predictor", "tuner_predictor"}
    /\ endpoints["predictor"] = "Deleted"
    /\ endpoints["tuner_predictor"] = "Deleted"

XgbJob == jobs["xgb_estimator"]

(* C14: with the train channel ShardedByS3Key over the two instances and   *)
(* the validation channel FullyReplicated, each instance of the XGBoost    *)
(* job receives exactly one of the two training files, each training file  *)
(* goes to exactly one instance, and every instance receives the whole     *)
(* validation file.                                                        *)
ShardedEqually ==
    ( /\ nb \in XgbNotebooks
      /\ "xgb_estimator" \in DOMAIN jobs
      /\ XgbJob.received # <<>> ) =>
        LET got == XgbJob.received
            file(stem) == UploadKey(IF stem = "abalone_validation" THEN "validation"
                                                                   ELSE "train",
                                    FileName(stem))
        IN  /\ DOMAIN got = 1..2
            /\ XgbJob.cfg.instance_count = 2
            /\ \A i \in DOMAIN got :
                  /\ Cardinality(got[i].train) = 1
                  /\ got[i].train \subseteq {file("abalone_train_0"), file("abalone_train_1")}
                  /\ got[i].validation = {file("abalone_validation")}
                  /\ s3[file("abalone_validation")] = write(validation)
            /\ got[1].train \cap got[2].train = {}
            /\ got[1].train \cup got[2].train
                  = {file("abalone_train_0"), file("abalone_train_1")}

\* the second instance has received abalone_train_0 and the first abalone_train_1
ShardedEquallyWitness ==
    /\ nb = "builtin"
    /\ "xgb_estimator" \in DOMAIN jobs
    /\ XgbJob.phase = "Training"
    /\ XgbJob.received # <<>>
    /\ XgbJob.received[2].train = {UploadKey("train", FileName("abalone_train_0"))}
    /\ XgbJob.received[1].train = {UploadKey("train", FileName("abalone_train_1"))}

\* every training job of the tuning job has been launched and has ended
TuningJobsFinished ==
    /\ TuningStatus = "InProgress"
    /\ tuning.launched = tuning.max_jobs
    /\ tuning.running = 0

Ok(call, on) ==
    {i \in DOMAIN log : log[i].call = call /\ log[i].on = on /\ log[i].result = "ok"}

(* C16: once a training job of the tuning job has completed, the best      *)
(* training job is a completed job whose validation:rmse is at most that   *)
(* of every completed job of the tuning job; best_training_job() names     *)
(* that job and tuner.deploy deploys the model of the same job.            *)
BestJob ==
    (nb = "builtin" /\ TuningStatus # "none") =>
        /\ tuning.objective_type = "Minimize"
        /\ tuning.objective_metric_name = "validation:rmse"
        /\ tuning.completed > 0 <=> tuning.best # None
        /\ tuning.completed > 0 <=> tuning.least # None
        /\ tuning.best # None =>
              /\ The(tuning.best).rmse \in Rmse
              /\ The(tuning.best).rmse <= The(tuning.least)
              /\ The(tuning.best).holder <= tuning.completed
        /\ \A i \in Ok("best_training_job", "tuner") :
              /\ TuningStatus \in Terminal
              /\ log[i].value # None
              /\ log[i].value = tuning.best
        /\ \A i \in Ok("deploy", "tuner") :
              /\ log[i].value = tuning.best
              /\ \A k \in Ok("best_training_job", "tuner") : log[k].value = log[i].value

\* the second job to be the best one, with the lesser rmse, has been named by
\* best_training_job() and deployed
BestJobWitness ==
    /\ nb = "builtin" /\ pc = "done"
    /\ TuningStatus = "Completed"
    /\ tuning.best = Some([holder |-> 2, rmse |-> 1])
    /\ Ok("deploy", "tuner") # {}
    /\ Ok("best_training_job", "tuner") # {}

\* the notebook that writes under the prefix of a key of the default bucket
Owner(key) ==
    CASE key[1] # bucket -> "none"
      [] key[1] = bucket /\ key[2] = "sagemaker/xgboost-dist-builtin" -> "builtin"
      [] key[1] = bucket /\ key[2] = "sagemaker/xgboost-dist-script" -> "script"
      [] key[1] = bucket /\ key[2] \in {"samples/datasets/emotion",
                                         "emotion-checkpointing-1st-job",
                                         "emotion-checkpointing-2nd-job"} -> "hf"
      [] OTHER -> "none"

\* the keys the run has written: every object but the sample data set, and the
\* checkpoint locations
Written == (DOMAIN s3 \ {SampleKey}) \cup DOMAIN ckpts

Threw(call, error) ==
    {i \in DOMAIN log : log[i].call = call /\ log[i].result = error}

(* C18: in the Hugging Face notebook, when the setup cell has completed    *)
(* role is defined: it is the result of get_execution_role() when that     *)
(* call returned, and the role fetched from IAM under the name             *)
(* sagemaker_execution_role when it raised ValueError; any other           *)
(* exception of get_execution_role, and any exception of the IAM lookup,   *)
(* stops the cell with role undefined.  The bucket is the default bucket   *)
(* of the session, asked for at the start of the cell.                     *)
RoleDefined ==
    nb = "hf" =>
        /\ Ran("setup") =>
              /\ role \in {"execution_role", "sagemaker_execution_role"}
              /\ role = "execution_role" <=> Ok("get_execution_role", "sagemaker") # {}
              /\ role = "sagemaker_execution_role" <=>
                    /\ Threw("get_execution_role", "ValueError") # {}
                    /\ Ok("get_role", "iam") # {}
              /\ Ok("default_bucket", "session") = {1}
        /\ ~Ran("setup") => role = "none"
        /\ \A i \in Threw("get_execution_role", "ValueError") :
              i < Len(log) /\ log[i + 1].call = "get_role"
        /\ \A i \in Threw("get_execution_role", "error") \cup Threw("get_role", "error")
                    \cup Threw("get_role", "ValueError") :
              /\ i = Len(log)
              /\ exc = log[i].result
              /\ pc = "setup"
        /\ Ok("get_role", "iam") # {} => Ok("get_execution_role", "sagemaker") = {}
        /\ \A key \in Written : key[1] = bucket

\* the setup cell has completed with the role fetched from IAM
RoleDefinedWitness ==
    /\ nb = "hf" /\ pc = "preprocess" /\ exc = "none"
    /\ role = "sagemaker_execution_role"
    /\ Len(log) = 3
    /\ log[2].result = "ValueError"

\* the calls made on an endpoint: the deploy that returns it is logged on its
\* source, every other call on the predictor
OnEndpoint(i, p) ==
    \/ log[i].on = p
    \/ log[i].call = "deploy"
         /\ log[i].on = (IF p = "predictor" THEN "xgb_estimator" ELSE "tuner")

(* C19: in the XGBoost notebooks every predict call is made on an endpoint *)
(* that is in service: after the deploy that created it has returned and   *)
(* before its delete_endpoint, and once an endpoint is deleted no call is  *)
(* made on it.                                                             *)
PredictWhileLive ==
    nb \in XgbNotebooks =>
        \A p \in {"predictor", "tuner_predictor"} :
            /\ \A i \in Threw("predict", "ok") \cup Threw("predict", "error")
                        \cup Threw("predict", "ValueError") :
                  log[i].on = p =>
                    /\ log[i].dep = "InService"
                    /\ \E k \in 1..(i - 1) :
                          /\ log[k].call = "deploy" /\ OnEndpoint(k, p)
                          /\ log[k].result = "ok"
                    /\ \A k \in 1..(i - 1) :
                          ~(log[k].call = "delete_endpoint" /\ log[k].on = p)
            /\ \A i \in Ok("delete_endpoint", p) :
                  /\ log[i].dep = "InService"
                  /\ \A k \in (i + 1)..Len(log) : ~OnEndpoint(k, p)
            /\ EndpointState(p) = "Deleted" <=> Ok("delete_endpoint", p) # {}

\* the tuner's endpoint has answered a predict and has then been deleted
PredictWhileLiveWitness ==
    /\ nb = "builtin" /\ pc = "done"
    /\ Ok("predict", "tuner_predictor") # {}
    /\ Ok("predict", "predictor") # {}
    /\ EndpointState("tuner_predictor") = "Deleted"

\* the row labels of a frame
Rows(frame) == Range(frame.index)

(* C20: whatever the shuffles, train_0, train_1 and validation partition   *)
(* the rows of data: they are pairwise disjoint and together are every     *)
(* row; train_0 has floor(0.5 * |train|) rows and train_1 the other rows   *)
(* of train, so train_1 has as many rows as train_0 or one more; and the   *)
(* three files hold these frames.                                          *)
ThreeWayPartition ==
    Ran("split") =>
        /\ Rows(train_0) \cap Rows(train_1) = {}
        /\ Rows(train_0) \cap Rows(validation) = {}
        /\ Rows(train_1) \cap Rows(validation) = {}
        /\ Rows(train_0) \cup Rows(train_1) \cup Rows(validation) = Rows(data)
        /\ Rows(train_0) \cup Rows(train_1) = Rows(train)
        /\ \A f \in {train_0, train_1, validation} :
              Cardinality(Rows(f)) = Len(f.index)
        /\ Len(train_0.index) = Len(train.index) \div 2
        /\ Len(train_1.index) = Len(train.index) - Len(train.index) \div 2
        /\ Len(train_1.index) - Len(train_0.index) \in {0, 1}
        /\ files[FileName("abalone_train_0")] = write(train_0)
        /\ files[FileName("abalone_train_1")] = write(train_1)
        /\ files[FileName("abalone_validation")] = write(validation)

\* four rows: three of them for training, shared out as one and two
ThreeWayPartitionWitness ==
    /\ Ran("split")
    /\ Len(data.index) = 4
    /\ train_0.index = <<2>>
    /\ train_1.index = <<0, 3>>
    /\ validation.index = <<1>>

=============================================================================
